---------------------------- MODULE Spec2Model ----------------------------
(***************************************************************************)
(* TokenHashGenerator: three programs of one repository.                   *)
(*                                                                         *)
(*  - the index builder and lookup server (src/unnamed/part_000, second    *)
(*    package, lines 201-412): calculateAndStoreHashes, the lookup         *)
(*    handlers and main;                                                   *)
(*  - the SQLite batch verifier (src/unnamed/part_000, first package,      *)
(*    lines 1-199): verifyTokensHandler, one goroutine per token;          *)
(*  - the flat-file batch verifier (src/main.go): verifyTokensHandler,     *)
(*    one sequential scan per token.                                       *)
(*                                                                         *)
(* Strings are sequences of one-character strings.  A file is the sequence *)
(* of its lines (the trailing "\n" of a record is the line break).         *)
(***************************************************************************)
EXTENDS Integers, Sequences, FiniteSets, TLC

(***************************************************************************)
(* Bounds of the model.                                                    *)
(***************************************************************************)
\* limit of the build (hashLimit = 4300000 in the program)
limit == 2
\* capacity of the semaphore (concurrency = 100 in the program)
concurrency == 2
\* capacity of hashChannel (channelBufferSize = 1000 in the program)
channelBufferSize == 1
\* capacity of the bufio.Writer, in records (bufferSize = 1MB in the program)
bufferSize == 1
\* length of a hex digest (64 for SHA-256)
HashLen == 7

\* number of characters of the level field: tokenHash[:3], tokenHash[3:]
LevelLen == 3
\* the length the verifier checks: 67 = 3 + 64 in the program
TokenLen == LevelLen + HashLen

(***************************************************************************)
(* strconv, strings, fmt, sha256                                           *)
(***************************************************************************)
Digits == <<"0", "1", "2", "3", "4", "5", "6", "7", "8", "9">>

IsDigit(c) == \E d \in 1..Len(Digits) : Digits[d] = c

DigitVal(c) == (CHOOSE d \in 1..Len(Digits) : Digits[d] = c) - 1

\* strconv.Itoa of a non-negative int
RECURSIVE Itoa(_)
Itoa(n) == IF n < Len(Digits) THEN <<Digits[n + 1]>>
           ELSE Itoa(n \div Len(Digits)) \o <<Digits[(n % Len(Digits)) + 1]>>

\* value of a string of decimal digits
RECURSIVE DigitsVal(_)
DigitsVal(s) == IF s = <<>> THEN 0
                ELSE DigitsVal(SubSeq(s, 1, Len(s) - 1)) * Len(Digits)
                     + DigitVal(s[Len(s)])

AllDigits(s) == \A k \in 1..Len(s) : IsDigit(s[k])

\* strconv.Atoi: [val, ok].  An optional sign, then one or more decimal
\* digits; anything else is a syntax error, and the value is then 0.
Atoi(s) ==
    LET signed == s # <<>> /\ s[1] \in {"+", "-"}
        body   == IF signed THEN Tail(s) ELSE s
    IN  IF body = <<>> \/ ~AllDigits(body)
        THEN [val |-> 0, ok |-> FALSE]
        ELSE [val |-> IF signed /\ s[1] = "-" THEN 0 - DigitsVal(body)
                      ELSE DigitsVal(body),
              ok  |-> TRUE]

\* strings.TrimLeft(s, "0")
RECURSIVE TrimLeftZeros(_)
TrimLeftZeros(s) == IF s # <<>> /\ s[1] = "0" THEN TrimLeftZeros(Tail(s)) ELSE s

\* strings.Split(s, ":")
RECURSIVE SplitColon(_)
SplitColon(s) ==
    IF \E k \in 1..Len(s) : s[k] = ":"
    THEN LET k == CHOOSE j \in 1..Len(s) :
                      s[j] = ":" /\ \A m \in 1..(j - 1) : s[m] # ":"
         IN  <<SubSeq(s, 1, k - 1)>> \o SplitColon(SubSeq(s, k + 1, Len(s)))
    ELSE <<s>>

\* calculateSHA256: the hex digest of the input string.  SHA-256 itself is
\* not computed: the digest is an injective stand-in of HashLen characters,
\* the input's characters right-aligned behind a padding of "f".
calculateSHA256(input) ==
    [k \in 1..HashLen |->
        IF k <= HashLen - Len(input) THEN "f"
        ELSE input[k - (HashLen - Len(input))]]

\* fmt.Sprintf("%d:%s\n", tokenNumber, hash), without the line break
Record(tokenNumber) ==
    Itoa(tokenNumber) \o <<":">> \o calculateSHA256(Itoa(tokenNumber))


(***************************************************************************)
(* State of the index builder and lookup server (part_000, lines 201-412)  *)
(***************************************************************************)
VARIABLES
    mainPc,       \* where main / calculateAndStoreHashes stands
    i,            \* the loop variable of the worker loop (line 272)
    wg,           \* the WaitGroup's counter
    semaphore,    \* number of values held in the semaphore channel
    workerPc,     \* tokenNumber -> where that worker goroutine stands
    hashChannel,  \* the records held in the buffered channel
    chClosed,     \* close(hashChannel) has run
    semaphoreCap, \* cap(semaphore): the concurrency of this build (line 257)
    writerPc,     \* where the writer goroutine stands
    hash,         \* the writer goroutine's loop variable (line 263)
    buf,          \* bufio.Writer: the buffered records, b.buf[0:b.n]
    bufErr,       \* bufio.Writer: b.err # nil (sticky)
    fileData,     \* the lines of the index file on disk
    fileOpen,     \* the *os.File has not been closed
    writeFailed,  \* some writer.WriteString returned an error (line 264)
    ioFailed,     \* the operating system refused a write of the open file
    result,       \* what calculateAndStoreHashes returned: "none", "nil",
                  \* "error"
    lookup        \* the last lookup a handler answered; read: it read the file

bvars == <<mainPc, i, wg, semaphore, semaphoreCap, workerPc, hashChannel,
           chClosed, writerPc, hash, buf, bufErr, fileData, fileOpen,
           writeFailed, ioFailed, result, lookup>>

(***************************************************************************)
(* State of the verifiers                                                  *)
(***************************************************************************)
VARIABLES
    variant,      \* the program that runs: "build", "db" (part_000, the
                  \* SQLite verifier) or "file" (main.go)
    index,        \* the identifiers of the index, in the order of its records
    stmtOK,       \* db: prepareStatements set stmtVerifyToken (line 134)
    input,        \* the decoded request: the tokens
    cancelled,    \* the request's context is done: the client went away or
                  \* the server's timeout passed
    decoded,      \* place of a token -> the level and hash decoded from it
    handlerPc,    \* where verifyTokensHandler stands
    results,      \* the results map
    response,     \* what the handler wrote: the status and the JSON map
    storeErr,     \* a lookup met a database or file error
    spawned,      \* db: number of goroutines started by the loop (line 154)
    wgVerify,     \* db: the WaitGroup's counter
    mutex,        \* db: the goroutine that holds the mutex, or 0
    gPc,          \* db: goroutine -> where it stands
    row,          \* db: goroutine -> what QueryRow(hash).Scan gave it
    mapWriters,   \* db: the goroutines inside an assignment to results
    raced,        \* db: the goroutines whose assignment overlapped another
    crash,        \* db: what ended the process (a panic in a goroutine, a
                  \* fatal error of the runtime), or "none"
    tokIdx,       \* file: place of the token the loop is at (line 134)
    cursor,       \* file: the line the scanner reads next
    found         \* file: found (line 144)

vvars == <<variant, index, stmtOK, input, cancelled, decoded, handlerPc,
           results, response, storeErr, spawned, wgVerify, mutex, gPc, row,
           mapWriters, raced, crash, tokIdx, cursor, found>>

vars == <<bvars, vvars>>

TokenNumbers == 0..limit

\* the process is alive: neither log.Fatalf (line 398) nor log.Fatal (line 411)
Running == mainPc \notin {"fatal", "exited"}

\* workers that hold a place of the semaphore: started, place not yet given back
InFlight == {t \in TokenNumbers : workerPc[t] \in {"send", "release"}}

\* no lookup answered yet
NoLookup == [handler |-> "none", hash |-> <<>>, read |-> FALSE, status |-> 0,
             tokenNumber |-> 0, err |-> "nil", result |-> <<>>]

BInit ==
    /\ mainPc = "create"
    /\ i = 0
    /\ wg = 0
    /\ semaphore = 0
    /\ workerPc = [t \in TokenNumbers |-> "none"]
    /\ hashChannel = <<>>
    /\ chClosed = FALSE
    /\ writerPc = "none"
    /\ hash = <<>>
    /\ buf = <<>>
    /\ bufErr = FALSE
    /\ fileData = <<>>
    /\ fileOpen = FALSE
    /\ writeFailed = FALSE
    /\ ioFailed = FALSE
    /\ result = "none"
    /\ lookup = NoLookup

(***************************************************************************)
(* bufio.Writer over the file.  One record is the unit of space; ioOk is   *)
(* whether the operating system accepts this write of an open file.        *)
(***************************************************************************)
\* (*os.File).Write of the records recs
FileWriteOk(ioOk) == fileOpen /\ ioOk

\* (*bufio.Writer).Flush up to and including b.wr.Write: [file, err, io],
\* io: the operating system refused the write
FlushWrite(ioOk) ==
    IF bufErr \/ buf = <<>>
    THEN [file |-> fileData, err |-> bufErr, io |-> FALSE]
    ELSE IF FileWriteOk(ioOk)
         THEN [file |-> fileData \o buf, err |-> FALSE, io |-> FALSE]
         ELSE [file |-> fileData, err |-> TRUE, io |-> fileOpen]

\* (*bufio.Writer).WriteString(s): [buf, file, err, failed, io].  While s does
\* not fit and b.err = nil the buffer is flushed; with b.err set the call
\* returns the error and s is dropped; otherwise s is copied to the buffer.
WriteString(s, ioOk) ==
    LET full    == Len(buf) >= bufferSize /\ ~bufErr
        flushed == FlushWrite(ioOk)
        err1    == IF full THEN flushed.err ELSE bufErr
        file1   == IF full THEN flushed.file ELSE fileData
        buf1    == IF full /\ ~flushed.err THEN <<>> ELSE buf
    IN  IF err1
        THEN [buf |-> buf1, file |-> file1, err |-> TRUE, failed |-> TRUE,
              io |-> full /\ flushed.io]
        ELSE [buf |-> Append(buf1, s), file |-> file1, err |-> FALSE,
              failed |-> FALSE, io |-> FALSE]

(***************************************************************************)
(* calculateAndStoreHashes (lines 247-289)                                 *)
(***************************************************************************)
\* lines 248-269: os.Create, the writer, the channels, go writer goroutine;
\* on an error of os.Create the function returns it and main ends in
\* log.Fatalf (line 398)
Create ==
    /\ mainPc = "create"
    /\ \E ok \in BOOLEAN :
          IF ok
          THEN /\ mainPc' = "add"
               /\ fileOpen' = TRUE
               /\ writerPc' = "recv"
               /\ UNCHANGED result
          ELSE /\ mainPc' = "fatal"
               /\ result' = "error"
               /\ UNCHANGED <<fileOpen, writerPc>>
    /\ UNCHANGED <<vvars, semaphoreCap, i, wg, semaphore, workerPc,
                   hashChannel, chClosed, hash, buf, bufErr, fileData,
                   writeFailed, ioFailed, lookup>>

\* lines 272-273: the loop test and wg.Add(1)
LoopAdd ==
    /\ mainPc = "add"
    /\ IF i <= limit
       THEN /\ wg' = wg + 1
            /\ mainPc' = "acquire"
       ELSE /\ mainPc' = "wait"
            /\ UNCHANGED wg
    /\ UNCHANGED <<vvars, semaphoreCap, i, semaphore, workerPc, hashChannel,
                   chClosed, writerPc, hash, buf, bufErr, fileData, fileOpen,
                   writeFailed, ioFailed, result, lookup>>

\* a semaphore channel that takes one value more than its capacity
SemaphoreHasRoomOffByOne == semaphore <= semaphoreCap

\* the send on the semaphore channel (line 274): blocks while it is full
SemaphoreHasRoom == semaphore < semaphoreCap

\* lines 274-276, 282, 272: semaphore <- struct{}{}; go func(i); i++
LoopSpawn ==
    /\ mainPc = "acquire"
    /\ SemaphoreHasRoom
    /\ semaphore' = semaphore + 1
    /\ workerPc' = [workerPc EXCEPT ![i] = "send"]
    /\ i' = i + 1
    /\ mainPc' = "add"
    /\ UNCHANGED <<vvars, semaphoreCap, wg, hashChannel, chClosed, writerPc,
                   hash, buf, bufErr, fileData, fileOpen, writeFailed,
                   ioFailed, result, lookup>>

\* the send on hashChannel (line 281): blocks while the channel is full
ChannelHasRoom == Len(hashChannel) < channelBufferSize

\* lines 280-281: the worker hashes its number and sends the record
WorkerSend(t) ==
    /\ Running
    /\ workerPc[t] = "send"
    /\ ChannelHasRoom
    /\ hashChannel' = Append(hashChannel, Record(t))
    /\ workerPc' = [workerPc EXCEPT ![t] = "release"]
    /\ UNCHANGED <<vvars, semaphoreCap, mainPc, i, wg, semaphore, chClosed,
                   writerPc, hash, buf, bufErr, fileData, fileOpen,
                   writeFailed, ioFailed, result, lookup>>

\* a worker that ends without taking its value out of the semaphore
WorkerKeepsItsPlace(t) ==
    /\ Running
    /\ workerPc[t] = "release"
    /\ workerPc' = [workerPc EXCEPT ![t] = "done"]
    /\ UNCHANGED <<vvars, mainPc, i, wg, semaphore, semaphoreCap, hashChannel,
                   chClosed, writerPc, hash, buf, bufErr, fileData, fileOpen,
                   writeFailed, ioFailed, result, lookup>>

\* line 278: defer func() { <-semaphore }(), the first deferred call to run
WorkerRelease(t) ==
    /\ Running
    /\ workerPc[t] = "release"
    /\ semaphore' = semaphore - 1
    /\ workerPc' = [workerPc EXCEPT ![t] = "done"]
    /\ UNCHANGED <<vvars, semaphoreCap, mainPc, i, wg, hashChannel, chClosed,
                   writerPc, hash, buf, bufErr, fileData, fileOpen,
                   writeFailed, ioFailed, result, lookup>>

\* line 277: defer wg.Done()
WorkerDone(t) ==
    /\ Running
    /\ workerPc[t] = "done"
    /\ wg' = wg - 1
    /\ workerPc' = [workerPc EXCEPT ![t] = "exit"]
    /\ UNCHANGED <<vvars, semaphoreCap, mainPc, i, semaphore, hashChannel,
                   chClosed, writerPc, hash, buf, bufErr, fileData, fileOpen,
                   writeFailed, ioFailed, result, lookup>>

\* line 285: wg.Wait()
Wait ==
    /\ mainPc = "wait"
    /\ wg = 0
    /\ mainPc' = "close"
    /\ UNCHANGED <<vvars, semaphoreCap, i, wg, semaphore, workerPc,
                   hashChannel, chClosed, writerPc, hash, buf, bufErr,
                   fileData, fileOpen, writeFailed, ioFailed, result, lookup>>

\* lines 286, 288: close(hashChannel); return nil, which starts the deferred
\* calls
CloseChannel ==
    /\ mainPc = "close"
    /\ chClosed' = TRUE
    /\ result' = "nil"
    /\ mainPc' = "deferFlush"
    /\ UNCHANGED <<vvars, semaphoreCap, i, wg, semaphore, workerPc,
                   hashChannel, writerPc, hash, buf, bufErr, fileData,
                   fileOpen, writeFailed, ioFailed, lookup>>

\* line 255, defer writer.Flush(): the check of b.err and b.n and the write
\* of b.buf[0:b.n] to the file
DeferFlushWrite ==
    /\ mainPc = "deferFlush"
    /\ \E ioOk \in BOOLEAN :
          LET f == FlushWrite(ioOk)
          IN  /\ fileData' = f.file
              /\ bufErr' = f.err
              /\ ioFailed' = (ioFailed \/ f.io)
              /\ mainPc' = IF bufErr \/ buf = <<>> \/ f.err
                           THEN "deferClose" ELSE "deferFlushReset"
    /\ UNCHANGED <<vvars, semaphoreCap, i, wg, semaphore, workerPc,
                   hashChannel, chClosed, writerPc, hash, buf, fileOpen,
                   writeFailed, result, lookup>>

\* line 255, defer writer.Flush(): b.n = 0 after the write.  It is not
\* synchronized with the writer goroutine, whose calls may come in between.
DeferFlushReset ==
    /\ mainPc = "deferFlushReset"
    /\ buf' = <<>>
    /\ mainPc' = "deferClose"
    /\ UNCHANGED <<vvars, semaphoreCap, i, wg, semaphore, workerPc,
                   hashChannel, chClosed, writerPc, hash, bufErr, fileData,
                   fileOpen, writeFailed, ioFailed, result, lookup>>

\* line 252, defer file.Close(); then the function has returned to main
DeferClose ==
    /\ mainPc = "deferClose"
    /\ fileOpen' = FALSE
    /\ mainPc' = "returned"
    /\ UNCHANGED <<vvars, semaphoreCap, i, wg, semaphore, workerPc,
                   hashChannel, chClosed, writerPc, hash, buf, bufErr,
                   fileData, writeFailed, ioFailed, result, lookup>>

(***************************************************************************)
(* The writer goroutine (lines 262-269)                                    *)
(***************************************************************************)
\* line 263: for hash := range hashChannel
WriterRecv ==
    /\ Running
    /\ writerPc = "recv"
    /\ IF hashChannel # <<>>
       THEN /\ hash' = Head(hashChannel)
            /\ hashChannel' = Tail(hashChannel)
            /\ writerPc' = "write"
       ELSE /\ chClosed
            /\ writerPc' = "flush"
            /\ UNCHANGED <<hash, hashChannel>>
    /\ UNCHANGED <<vvars, semaphoreCap, mainPc, i, wg, semaphore, workerPc,
                   chClosed, buf, bufErr, fileData, fileOpen, writeFailed,
                   ioFailed, result, lookup>>

\* lines 264-266: writer.WriteString(hash); an error is logged, no more
WriterWrite ==
    /\ Running
    /\ writerPc = "write"
    /\ \E ioOk \in BOOLEAN :
          LET w == WriteString(hash, ioOk)
          IN  /\ buf' = w.buf
              /\ fileData' = w.file
              /\ bufErr' = w.err
              /\ writeFailed' = (writeFailed \/ w.failed)
              /\ ioFailed' = (ioFailed \/ w.io)
    /\ writerPc' = "recv"
    /\ UNCHANGED <<vvars, semaphoreCap, mainPc, i, wg, semaphore, workerPc,
                   hashChannel, chClosed, hash, fileOpen, result, lookup>>

\* line 268, writer.Flush(): the check of b.err and b.n and the write
WriterFlushWrite ==
    /\ Running
    /\ writerPc = "flush"
    /\ \E ioOk \in BOOLEAN :
          LET f == FlushWrite(ioOk)
          IN  /\ fileData' = f.file
              /\ bufErr' = f.err
              /\ ioFailed' = (ioFailed \/ f.io)
              /\ writerPc' = IF bufErr \/ buf = <<>> \/ f.err
                             THEN "exit" ELSE "flushReset"
    /\ UNCHANGED <<vvars, semaphoreCap, mainPc, i, wg, semaphore, workerPc,
                   hashChannel, chClosed, hash, buf, fileOpen, writeFailed,
                   result, lookup>>

\* line 268, writer.Flush(): b.n = 0 after the write
WriterFlushReset ==
    /\ Running
    /\ writerPc = "flushReset"
    /\ buf' = <<>>
    /\ writerPc' = "exit"
    /\ UNCHANGED <<vvars, semaphoreCap, mainPc, i, wg, semaphore, workerPc,
                   hashChannel, chClosed, hash, bufErr, fileData, fileOpen,
                   writeFailed, ioFailed, result, lookup>>

(***************************************************************************)
(* main and the lookup handlers (lines 291-412)                            *)
(***************************************************************************)
\* index of the first line at or after k that getTokenByHashFromFile and the
\* flat-file verifier accept for hash h (lines 367-370; src/main.go
\* 145-148): strings.Split(line, ":") has 2 parts and the second is h;
\* Len(lines) + 1 when there is none
RECURSIVE ScanFrom(_, _, _)
ScanFrom(lines, k, h) ==
    IF k > Len(lines) THEN Len(lines) + 1
    ELSE LET parts == SplitColon(lines[k])
         IN  IF Len(parts) = 2 /\ parts[2] = h THEN k
             ELSE ScanFrom(lines, k + 1, h)

\* getTokenByHashFromFile (lines 359-383): [tokenNumber, err]
getTokenByHashFromFile(h, lines) ==
    LET k == ScanFrom(lines, 1, h)
    IN  IF k > Len(lines)
        THEN [tokenNumber |-> 0, err |-> "hash not found"]
        ELSE LET n == Atoi(SplitColon(lines[k])[1])
             IN  IF n.ok THEN [tokenNumber |-> n.val, err |-> "nil"]
                 ELSE [tokenNumber |-> 0,
                       err |-> "invalid token number in file"]

\* a digest no identifier has
UnknownHash == [k \in 1..HashLen |-> "e"]

\* the hashes the lookup requests carry
LookupHashes ==
    {calculateSHA256(Itoa(t)) : t \in TokenNumbers} \cup {UnknownHash}

\* the level fields the /leveltoken/ requests carry
LookupLevels == {<<"5">>, <<"x">>}

\* lines 402-403: http.HandleFunc registers the two lookup handlers
Register ==
    /\ mainPc = "returned"
    /\ mainPc' = "serving"
    /\ UNCHANGED <<vvars, semaphoreCap, i, wg, semaphore, workerPc,
                   hashChannel, chClosed, writerPc, hash, buf, bufErr,
                   fileData, fileOpen, writeFailed, ioFailed, result, lookup>>

\* line 411: log.Fatal(http.ListenAndServe(...)) when the server ends
ListenFails ==
    /\ mainPc = "serving"
    /\ mainPc' = "exited"
    /\ UNCHANGED <<vvars, semaphoreCap, i, wg, semaphore, workerPc,
                   hashChannel, chClosed, writerPc, hash, buf, bufErr,
                   fileData, fileOpen, writeFailed, ioFailed, result, lookup>>

\* handleGetTokenByHash (lines 292-318), for one hash of the request
handleGetTokenByHash(h) ==
    /\ mainPc = "serving"
    /\ LET r == getTokenByHashFromFile(h, fileData)
       IN  lookup' = [handler |-> "token", hash |-> h, read |-> TRUE,
                      status |-> 200, tokenNumber |-> r.tokenNumber,
                      err |-> r.err, result |-> <<>>]
    /\ UNCHANGED <<vvars, semaphoreCap, mainPc, i, wg, semaphore, workerPc,
                   hashChannel, chClosed, writerPc, hash, buf, bufErr,
                   fileData, fileOpen, writeFailed, ioFailed, result>>

\* handleGetLevelTokenByHash (lines 321-356) for the path level-h; ipfsOk is
\* whether addStringToIPFS succeeds
handleGetLevelTokenByHash(level, h) ==
    /\ mainPc = "serving"
    /\ \E ipfsOk \in BOOLEAN :
          LET r == getTokenByHashFromFile(h, fileData)
              status == IF ~Atoi(level).ok THEN 400
                        ELSE IF r.err # "nil" THEN 404
                        ELSE IF ~ipfsOk THEN 500 ELSE 200
          IN  lookup' = [handler |-> "leveltoken", hash |-> h,
                         read |-> Atoi(level).ok,
                         status |-> status,
                         tokenNumber |-> IF status \in {200, 500}
                                         THEN r.tokenNumber ELSE 0,
                         err |-> IF Atoi(level).ok THEN r.err ELSE "nil",
                         result |-> IF status = 200
                                    THEN level \o Itoa(r.tokenNumber) ELSE <<>>]
    /\ UNCHANGED <<vvars, semaphoreCap, mainPc, i, wg, semaphore, workerPc,
                   hashChannel, chClosed, writerPc, hash, buf, bufErr,
                   fileData, fileOpen, writeFailed, ioFailed, result>>

BNext ==
    \/ Create
    \/ LoopAdd
    \/ LoopSpawn
    \/ \E t \in TokenNumbers : WorkerSend(t)
    \/ \E t \in TokenNumbers : WorkerRelease(t)
    \/ \E t \in TokenNumbers : WorkerDone(t)
    \/ Wait
    \/ CloseChannel
    \/ DeferFlushWrite
    \/ DeferFlushReset
    \/ DeferClose
    \/ WriterRecv
    \/ WriterWrite
    \/ WriterFlushWrite
    \/ WriterFlushReset
    \/ Register
    \/ ListenFails
    \/ \E h \in LookupHashes : handleGetTokenByHash(h)
    \/ \E level \in LookupLevels, h \in LookupHashes :
          handleGetLevelTokenByHash(level, h)

(***************************************************************************)
(* The verifiers: what both verifyTokensHandler share                      *)
(***************************************************************************)
\* TokenMap (src/main.go 17-97, part_000 21-101), level l at place l + 1
TokenMap ==
    <<0, 5000000, 2425000, 2303750, 2188563, 2079134, 1975178, 1876419,
      1782598, 1693468, 1608795, 1528355, 1451937, 1379340, 1310373,
      1244855, 1182612, 1123481, 1067307, 1013942, 963245, 915082,
      869328, 825862, 784569, 745340, 708073, 672670, 639036, 607084,
      576730, 547894, 520499, 494474, 469750, 446263, 423950, 402752,
      382615, 363484, 345310, 328044, 311642, 296060, 281257, 267194,
      253834, 241143, 229085, 217631, 206750, 196412, 186592, 177262,
      168399, 159979, 151980, 144381, 137162, 130304, 117273, 105546,
      94992, 85492, 76943, 69249, 62324, 56092, 50482, 45434, 40891,
      36802, 33121, 29809, 26828, 24146, 21731, 19558, 17602>>

\* a map that gives the quota of level 1 for a key it does not hold
TokenMapGetDefaultsToLevelOne(level) ==
    IF level \in 0..(Len(TokenMap) - 1) THEN TokenMap[level + 1]
    ELSE TokenMap[2]

\* TokenMap[level] of a Go map: the zero value for a key it does not hold
TokenMapGet(level) ==
    IF level \in 0..(Len(TokenMap) - 1) THEN TokenMap[level + 1] ELSE 0

\* strings.Trim(tokenHash[:3], "0"): zeros cut at both ends
LevelStrTrimmedAtBothEnds(tokenHash) ==
    LET Reverse(x) == [k \in 1..Len(x) |-> x[Len(x) + 1 - k]]
        left == TrimLeftZeros(SubSeq(tokenHash, 1, LevelLen))
    IN  Reverse(TrimLeftZeros(Reverse(left)))

\* strings.TrimLeft(tokenHash[:3], "0")
LevelStr(tokenHash) == TrimLeftZeros(SubSeq(tokenHash, 1, LevelLen))

\* level, _ := strconv.Atoi(levelStr): the error is dropped
Level(tokenHash) == Atoi(LevelStr(tokenHash)).val

\* tokenHash[3:]
HashOf(tokenHash) == SubSeq(tokenHash, LevelLen + 1, Len(tokenHash))

\* 0 < tokenNumber && tokenNumber <= TokenMap[level]
WithinQuota(tokenNumber, level) ==
    0 < tokenNumber /\ tokenNumber <= TokenMapGet(level)

\* results[key] = value
MapAssign(m, key, value) == (key :> value) @@ m

(***************************************************************************)
(* The requests of the model                                               *)
(***************************************************************************)
\* largest number of tokens of a request
MaxBatch == 2

Digest(n) == calculateSHA256(Itoa(n))

\* the identifiers of the index the verifiers read: 0, an identifier within
\* every quota, and the quota of level 78 and its successor
IndexOrders == {<<0, 100, 17602, 17603>>, <<17603, 17602, 100, 0>>}

TokenList ==
    << <<"0", "0", "5">> \o Digest(100),
       <<"0", "7", "8">> \o Digest(17602),
       <<"0", "7", "8">> \o Digest(17603),
       <<"0", "0", "5">> \o Digest(0),
       <<"0", "0", "5">> \o UnknownHash,
       <<"0", "7", "9">> \o Digest(100),
       <<"0", "0", "0">> \o Digest(100),
       <<"+", "0", "5">> \o Digest(100),
       <<"a", "0", "5">> \o Digest(100),
       <<>>,
       SubSeq(<<"0", "0", "5">> \o Digest(100), 1, TokenLen - 1) >>

\* digests for the decoding: one of an identifier, one of none, one of zeros
DecodeHashes == {Digest(100), UnknownHash, [k \in 1..HashLen |-> "0"]}

\* the token of a level and a digest: the level as LevelLen digits, padded
\* with zeros, then the digest
Encode(level, h) ==
    [k \in 1..(LevelLen - Len(Itoa(level))) |-> "0"] \o Itoa(level) \o h

\* the tokens of every level of TokenMap and every digest of DecodeHashes
EncodedTokens ==
    {Encode(level, h) : level \in 0..(Len(TokenMap) - 1), h \in DecodeHashes}

\* the requests: every sequence of at most MaxBatch tokens of TokenList
RECURSIVE BatchesOf(_)
BatchesOf(n) ==
    IF n = 0 THEN {<<>>}
    ELSE LET shorter == BatchesOf(n - 1)
         IN  shorter \cup
             {Append(b, TokenList[t]) : b \in {x \in shorter : Len(x) = n - 1},
                                        t \in 1..Len(TokenList)}

Batches == BatchesOf(MaxBatch)

\* place of a token in TokenList
TokenIndex(tok) == CHOOSE t \in 1..Len(TokenList) : TokenList[t] = tok

\* the goroutines of one request run alike whatever their order: for the
\* concurrent verifier one order of every multiset of tokens is enough
SortedBatches ==
    {b \in Batches : \A k \in 1..(Len(b) - 1) :
                         TokenIndex(b[k]) <= TokenIndex(b[k + 1])}

Goroutines == 1..MaxBatch

EmptyMap == [k \in {} |-> FALSE]

\* a token that has not been decoded yet
NoDecode == [level |-> 0, hash |-> <<>>]

\* levelStr, level and hash of a token (src/main.go 138-140, part_000
\* 158-161)
Decode(tokenHash) == [level |-> Level(tokenHash), hash |-> HashOf(tokenHash)]

\* a goroutine that has not queried yet
NoRow == [err |-> "none", tokenNumber |-> 0]

\* nothing written to the http.ResponseWriter yet
NoResponse == [status |-> 0, body |-> EmptyMap]

\* http.Error(w, ..., status)
ErrorResponse(status) == [status |-> status, body |-> EmptyMap]

\* json.NewEncoder(w).Encode of the results
JsonResponse(m) == [status |-> 200, body |-> m]

\* the records of token_hashes.txt
FileLines == [k \in 1..Len(index) |-> Record(index[k])]

\* the rows of table tokens
DbRows == [k \in 1..Len(index) |->
              [token_value |-> index[k], token_hash |-> Digest(index[k])]]

\* the verifier state before a request, and in the builder's program
VIdle ==
    /\ handlerPc = "decode"
    /\ cancelled = FALSE
    /\ decoded = [g \in Goroutines |-> NoDecode]
    /\ results = EmptyMap
    /\ response = NoResponse
    /\ storeErr = FALSE
    /\ spawned = 0
    /\ wgVerify = 0
    /\ mutex = 0
    /\ gPc = [g \in Goroutines |-> "none"]
    /\ row = [g \in Goroutines |-> NoRow]
    /\ mapWriters = {}
    /\ raced = {}
    /\ crash = "none"
    /\ tokIdx = 1
    /\ cursor = 1
    /\ found = FALSE

(***************************************************************************)
(* The SQLite verifier (part_000, lines 103-199)                           *)
(***************************************************************************)
\* stmtVerifyToken.QueryRow(hash).Scan(&tokenNumberFromFile) (line 173):
\* [err, tokenNumber]; dbOk is whether the database answers
QueryRow(h, dbOk) ==
    IF ~dbOk THEN [err |-> "database error", tokenNumber |-> 0]
    ELSE IF \E k \in 1..Len(DbRows) : DbRows[k].token_hash = h
         THEN LET k == CHOOSE j \in 1..Len(DbRows) :
                           /\ DbRows[j].token_hash = h
                           /\ \A m \in 1..(j - 1) : DbRows[m].token_hash # h
              IN  [err |-> "nil", tokenNumber |-> DbRows[k].token_value]
         ELSE [err |-> "sql.ErrNoRows", tokenNumber |-> 0]

\* lines 142-153: decode the body, make the map, wg.Add(len(input.Tokens));
\* a body that does not decode is answered 400
DbDecode ==
    /\ variant = "db" /\ crash = "none"
    /\ handlerPc = "decode"
    /\ \E bodyOk \in BOOLEAN :
          IF bodyOk
          THEN /\ handlerPc' = "spawn"
               /\ wgVerify' = Len(input)
               /\ UNCHANGED response
          ELSE /\ handlerPc' = "done"
               /\ response' = ErrorResponse(400)
               /\ UNCHANGED wgVerify
    /\ UNCHANGED <<bvars, variant, index, stmtOK, input, cancelled, decoded,
                   results, storeErr, spawned, mutex, gPc, row, mapWriters,
                   raced, crash, tokIdx, cursor, found>>

\* lines 154-155, 188: go func(tokenHash) for the next token
DbSpawn ==
    /\ variant = "db" /\ crash = "none"
    /\ handlerPc = "spawn"
    /\ IF spawned < Len(input)
       THEN /\ spawned' = spawned + 1
            /\ gPc' = [gPc EXCEPT ![spawned + 1] = "start"]
            /\ UNCHANGED handlerPc
       ELSE /\ handlerPc' = "wait"
            /\ UNCHANGED <<spawned, gPc>>
    /\ UNCHANGED <<bvars, variant, index, stmtOK, input, cancelled, decoded,
                   results, response, storeErr, wgVerify, mutex, row,
                   mapWriters, raced, crash, tokIdx, cursor, found>>

\* lines 158-168: tokenHash[:3] panics on a token shorter than 3 characters,
\* and a panic in a goroutine ends the process; then the length check
GoStart(g) ==
    /\ variant = "db" /\ crash = "none"
    /\ gPc[g] = "start"
    /\ IF Len(input[g]) < LevelLen
       THEN /\ crash' = "slice bounds out of range"
            /\ UNCHANGED <<gPc, decoded>>
       ELSE /\ decoded' = [decoded EXCEPT ![g] = Decode(input[g])]
            /\ gPc' = [gPc EXCEPT ![g] = IF Len(input[g]) # TokenLen
                                         THEN "invalid" ELSE "lock"]
            /\ UNCHANGED crash
    /\ UNCHANGED <<bvars, variant, index, stmtOK, input, cancelled,
                   handlerPc, results, response, storeErr, spawned, wgVerify,
                   mutex, row, mapWriters, raced, tokIdx, cursor, found>>

\* the start of an assignment to results (lines 166, 181, 184).  The map is
\* not safe for concurrent writers: when another assignment is under way the
\* runtime either sees it and ends the process ("fatal error: concurrent map
\* writes") or does not, and both assignments are then marked as raced.
MapAssignBegin(g, from, to) ==
    /\ variant = "db" /\ crash = "none"
    /\ gPc[g] = from
    /\ \E detected \in IF mapWriters = {} THEN {FALSE} ELSE BOOLEAN :
          IF detected
          THEN /\ crash' = "concurrent map writes"
               /\ UNCHANGED <<gPc, mapWriters, raced>>
          ELSE /\ gPc' = [gPc EXCEPT ![g] = to]
               /\ mapWriters' = mapWriters \cup {g}
               /\ raced' = IF mapWriters # {}
                           THEN raced \cup mapWriters \cup {g} ELSE raced
               /\ UNCHANGED crash
    /\ UNCHANGED <<bvars, variant, index, stmtOK, input, cancelled, decoded,
                   handlerPc, results, response, storeErr, spawned, wgVerify,
                   mutex, row, tokIdx, cursor, found>>

\* the end of an assignment results[input[g]] = value.  An assignment that
\* overlapped another one has one of the outcomes of the data race: the
\* entry is stored, the entry is lost, or the runtime ends the process.
MapAssignEnd(g, from, to, value) ==
    /\ variant = "db" /\ crash = "none"
    /\ gPc[g] = from
    /\ \E outcome \in IF g \in raced THEN {"stored", "lost", "fatal"}
                        ELSE {"stored"} :
          /\ IF outcome = "fatal"
             THEN /\ crash' = "concurrent map writes"
                  /\ UNCHANGED <<gPc, mapWriters, raced, results>>
             ELSE /\ results' = IF outcome = "stored"
                                THEN MapAssign(results, input[g], value)
                                ELSE results
                  /\ gPc' = [gPc EXCEPT ![g] = to]
                  /\ mapWriters' = mapWriters \ {g}
                  /\ raced' = raced \ {g}
                  /\ UNCHANGED crash
    /\ UNCHANGED <<bvars, variant, index, stmtOK, input, cancelled, decoded,
                   handlerPc, response, storeErr, spawned, wgVerify, mutex,
                   row, tokIdx, cursor, found>>

\* line 166: results[tokenHash] = false, without the mutex
GoInvalidBegin(g) == MapAssignBegin(g, "invalid", "invalidAssign")

\* lines 166-167: the assignment ends; return
GoInvalidEnd(g) == MapAssignEnd(g, "invalidAssign", "done", FALSE)

\* line 171: mutex.Lock()
GoLock(g) ==
    /\ variant = "db" /\ crash = "none"
    /\ gPc[g] = "lock"
    /\ mutex = 0
    /\ mutex' = g
    /\ gPc' = [gPc EXCEPT ![g] = "query"]
    /\ UNCHANGED <<bvars, variant, index, stmtOK, input, cancelled, decoded,
                   handlerPc, results, response, storeErr, spawned, wgVerify,
                   row, mapWriters, raced, crash, tokIdx, cursor, found>>

\* line 173: the query; with stmtVerifyToken nil the call panics
GoQuery(g) ==
    /\ variant = "db" /\ crash = "none"
    /\ gPc[g] = "query"
    /\ IF ~stmtOK
       THEN /\ crash' = "nil pointer dereference"
            /\ UNCHANGED <<gPc, row, storeErr>>
       ELSE /\ \E dbOk \in BOOLEAN :
                  /\ row' = [row EXCEPT ![g] = QueryRow(HashOf(input[g]), dbOk)]
                  /\ storeErr' = (storeErr \/ ~dbOk)
            /\ gPc' = [gPc EXCEPT ![g] = "assign"]
            /\ UNCHANGED crash
    /\ UNCHANGED <<bvars, variant, index, stmtOK, input, cancelled, decoded,
                   handlerPc, results, response, spawned, wgVerify, mutex,
                   mapWriters, raced, tokIdx, cursor, found>>

\* the value lines 174-185 assign for what the query gave
VerdictOf(r, level) ==
    IF r.err # "nil" THEN FALSE ELSE WithinQuota(r.tokenNumber, level)

\* lines 181, 184: results[tokenHash] = ..., holding the mutex
GoAssignBegin(g) == MapAssignBegin(g, "assign", "assigning")

GoAssignEnd(g) ==
    MapAssignEnd(g, "assigning", "unlock",
                 VerdictOf(row[g], Level(input[g])))

\* line 187: mutex.Unlock()
GoUnlock(g) ==
    /\ variant = "db" /\ crash = "none"
    /\ gPc[g] = "unlock"
    /\ mutex' = 0
    /\ gPc' = [gPc EXCEPT ![g] = "done"]
    /\ UNCHANGED <<bvars, variant, index, stmtOK, input, cancelled, decoded,
                   handlerPc, results, response, storeErr, spawned, wgVerify,
                   row, mapWriters, raced, crash, tokIdx, cursor, found>>

\* line 156: defer wg.Done()
GoDone(g) ==
    /\ variant = "db" /\ crash = "none"
    /\ gPc[g] = "done"
    /\ wgVerify' = wgVerify - 1
    /\ gPc' = [gPc EXCEPT ![g] = "exit"]
    /\ UNCHANGED <<bvars, variant, index, stmtOK, input, cancelled, decoded,
                   handlerPc, results, response, storeErr, spawned, mutex,
                   row, mapWriters, raced, crash, tokIdx, cursor, found>>

\* line 192: wg.Wait()
DbWait ==
    /\ variant = "db" /\ crash = "none"
    /\ handlerPc = "wait"
    /\ wgVerify = 0
    /\ handlerPc' = "respond"
    /\ UNCHANGED <<bvars, variant, index, stmtOK, input, cancelled, decoded,
                   results, response, storeErr, spawned, wgVerify, mutex, gPc,
                   row, mapWriters, raced, crash, tokIdx, cursor, found>>

\* lines 195-198: the response is the results map
DbRespond ==
    /\ variant = "db" /\ crash = "none"
    /\ handlerPc = "respond"
    /\ response' = JsonResponse(results)
    /\ handlerPc' = "done"
    /\ UNCHANGED <<bvars, variant, index, stmtOK, input, cancelled, decoded,
                   results, storeErr, spawned, wgVerify, mutex, gPc, row,
                   mapWriters, raced, crash, tokIdx, cursor, found>>

DbNext ==
    \/ DbDecode
    \/ DbSpawn
    \/ \E g \in Goroutines : GoStart(g)
    \/ \E g \in Goroutines : GoInvalidBegin(g)
    \/ \E g \in Goroutines : GoInvalidEnd(g)
    \/ \E g \in Goroutines : GoLock(g)
    \/ \E g \in Goroutines : GoQuery(g)
    \/ \E g \in Goroutines : GoAssignBegin(g)
    \/ \E g \in Goroutines : GoAssignEnd(g)
    \/ \E g \in Goroutines : GoUnlock(g)
    \/ \E g \in Goroutines : GoDone(g)
    \/ DbWait
    \/ DbRespond

\* The context of the request (r, line 141) is done while the batch is being
\* verified: the client went away, or a timeout of the server passed.  The
\* handler and its goroutines never read r.Context(): nothing else changes.
RequestCancelled ==
    /\ variant = "db" /\ crash = "none"
    /\ handlerPc \in {"spawn", "wait"}
    /\ ~cancelled
    /\ cancelled' = TRUE
    /\ UNCHANGED <<bvars, variant, index, stmtOK, input, decoded, handlerPc,
                   results, response, storeErr, spawned, wgVerify, mutex, gPc,
                   row, mapWriters, raced, crash, tokIdx, cursor, found>>

CancelNext == DbNext \/ RequestCancelled

(***************************************************************************)
(* The flat-file verifier (src/main.go, lines 117-175)                     *)
(***************************************************************************)
\* lines 118-133: decode the body (400 when it fails), open the file (500
\* when it fails), the scanner and the results map
FileDecode ==
    /\ variant = "file"
    /\ handlerPc = "decode"
    /\ \E bodyOk \in BOOLEAN, openOk \in BOOLEAN :
          IF bodyOk /\ openOk
          THEN /\ handlerPc' = "token"
               /\ UNCHANGED response
          ELSE /\ handlerPc' = "done"
               /\ response' = ErrorResponse(IF bodyOk THEN 500 ELSE 400)
    /\ UNCHANGED <<bvars, variant, index, stmtOK, input, cancelled, decoded,
                   results, storeErr, spawned, wgVerify, mutex, gPc, row,
                   mapWriters, raced, crash, tokIdx, cursor, found>>

\* lines 134-144: the next token of the loop; tokenHash[:3] panics on a token
\* shorter than 3 characters, which net/http recovers by dropping the request
FileToken ==
    /\ variant = "file"
    /\ handlerPc = "token"
    /\ IF tokIdx > Len(input)
       THEN /\ handlerPc' = "respond"
            /\ UNCHANGED <<found, decoded>>
       ELSE IF Len(input[tokIdx]) < LevelLen
            THEN /\ handlerPc' = "panicked"
                 /\ UNCHANGED <<found, decoded>>
            ELSE /\ handlerPc' = "scan"
                 /\ decoded' = [decoded EXCEPT
                                   ![tokIdx] = Decode(input[tokIdx])]
                 /\ found' = FALSE
    /\ UNCHANGED <<bvars, variant, index, stmtOK, input, cancelled,
                   results, response, storeErr, spawned, wgVerify, mutex, gPc,
                   row, mapWriters, raced, crash, tokIdx, cursor>>

\* lines 145-157: one scanner.Scan() and the loop body; readOk is whether the
\* read of the file succeeds (Scan returns false when it does not)
FileScan ==
    /\ variant = "file"
    /\ handlerPc = "scan"
    /\ IF cursor > Len(FileLines)
       THEN /\ handlerPc' = "after"
            /\ UNCHANGED <<cursor, results, found, storeErr>>
       ELSE \E readOk \in BOOLEAN :
               IF ~readOk
               THEN /\ handlerPc' = "after"
                    /\ storeErr' = TRUE
                    /\ UNCHANGED <<cursor, results, found>>
               ELSE LET tokenHash == input[tokIdx]
                        parts == SplitColon(FileLines[cursor])
                    IN  /\ cursor' = cursor + 1
                        /\ UNCHANGED storeErr
                        /\ IF Len(parts) = 2 /\ parts[2] = HashOf(tokenHash)
                           THEN /\ results' =
                                     MapAssign(results, tokenHash,
                                               WithinQuota(Atoi(parts[1]).val,
                                                           Level(tokenHash)))
                                /\ found' = TRUE
                                /\ handlerPc' = "after"
                           ELSE UNCHANGED <<results, found, handlerPc>>
    /\ UNCHANGED <<bvars, variant, index, stmtOK, input, cancelled, decoded,
                   response, spawned, wgVerify, mutex, gPc, row, mapWriters,
                   raced, crash, tokIdx>>

\* a scanner that goes on from where the last token's scan stopped
KeptCursor == cursor

\* the scanner after file.Seek(0, 0) and bufio.NewScanner (lines 165-170)
ResetCursor == 1

\* lines 159-170: the token that was not found gets false; the file is
\* rewound (500 when Seek fails) and a new scanner made
FileAfter ==
    /\ variant = "file"
    /\ handlerPc = "after"
    /\ results' = IF found THEN results
                  ELSE MapAssign(results, input[tokIdx], FALSE)
    /\ \E seekOk \in BOOLEAN :
          IF seekOk
          THEN /\ cursor' = ResetCursor
               /\ tokIdx' = tokIdx + 1
               /\ handlerPc' = "token"
               /\ UNCHANGED response
          ELSE /\ response' = ErrorResponse(500)
               /\ handlerPc' = "done"
               /\ UNCHANGED <<cursor, tokIdx>>
    /\ UNCHANGED <<bvars, variant, index, stmtOK, input, cancelled, decoded,
                   storeErr, spawned, wgVerify, mutex, gPc, row, mapWriters,
                   raced, crash, found>>

\* lines 173-174: the response is the results map
FileRespond ==
    /\ variant = "file"
    /\ handlerPc = "respond"
    /\ response' = JsonResponse(results)
    /\ handlerPc' = "done"
    /\ UNCHANGED <<bvars, variant, index, stmtOK, input, cancelled, decoded,
                   results, storeErr, spawned, wgVerify, mutex, gPc, row,
                   mapWriters, raced, crash, tokIdx, cursor, found>>

FileNext ==
    \/ FileDecode
    \/ FileToken
    \/ FileScan
    \/ FileAfter
    \/ FileRespond

(***************************************************************************)
(* The specifications                                                      *)
(***************************************************************************)
\* the builder and lookup server
BuildInit ==
    /\ BInit
    /\ variant = "build"
    /\ semaphoreCap \in {1, concurrency}
    /\ index = <<>>
    /\ stmtOK = TRUE
    /\ input = <<>>
    /\ VIdle

SpecBuild == BuildInit /\ [][BNext]_vars

\* the steps of the goroutine that runs main and calculateAndStoreHashes,
\* up to the function's return
MainStep ==
    \/ Create
    \/ LoopAdd
    \/ LoopSpawn
    \/ Wait
    \/ CloseChannel
    \/ DeferFlushWrite
    \/ DeferFlushReset
    \/ DeferClose

\* the steps of the worker goroutine of tokenNumber t (lines 276-282)
WorkerStep(t) == WorkerSend(t) \/ WorkerRelease(t) \/ WorkerDone(t)

\* the steps of the writer goroutine (lines 262-269)
WriterStep ==
    \/ WriterRecv
    \/ WriterWrite
    \/ WriterFlushWrite
    \/ WriterFlushReset

\* the build under the scheduler of Go, which lets every goroutine that can
\* run take its next step
SpecBuildFair ==
    /\ BuildInit
    /\ [][BNext]_vars
    /\ WF_vars(MainStep)
    /\ \A t \in TokenNumbers : WF_vars(WorkerStep(t))
    /\ WF_vars(WriterStep)

\* one request to one of the two verifiers
VerifyInit ==
    /\ BInit
    /\ VIdle
    /\ variant \in {"db", "file"}
    /\ semaphoreCap = concurrency
    /\ index \in IndexOrders
    /\ stmtOK \in IF variant = "db" THEN BOOLEAN ELSE {TRUE}
    /\ input \in IF variant = "db" THEN SortedBatches ELSE Batches

VerifyNext == DbNext \/ FileNext

SpecVerify == VerifyInit /\ [][VerifyNext]_vars

\* one request of one token to one of the two verifiers: a token of
\* EncodedTokens or of TokenList
DecodeInit ==
    /\ BInit
    /\ VIdle
    /\ variant \in {"db", "file"}
    /\ semaphoreCap = concurrency
    /\ index \in IndexOrders
    /\ stmtOK \in IF variant = "db" THEN BOOLEAN ELSE {TRUE}
    /\ input \in {<<tok>> :
                     tok \in EncodedTokens
                               \cup {TokenList[t] : t \in 1..Len(TokenList)}}

SpecDecode == DecodeInit /\ [][VerifyNext]_vars

\* one request to the SQLite verifier, which may be cancelled
CancelInit == VerifyInit /\ variant = "db"

SpecCancel == CancelInit /\ [][CancelNext]_vars

(***************************************************************************)
(* The build: claims C1-C4, C10, C11, C16, C17                             *)
(***************************************************************************)
\* the index a build with this limit is to leave: limit + 1 lines, every
\* identifier's record exactly once, no digest twice
IndexComplete(lines) ==
    /\ Len(lines) = limit + 1
    /\ \A t \in TokenNumbers :
          Cardinality({k \in 1..Len(lines) : lines[k] = Record(t)}) = 1
    /\ \A j, k \in 1..Len(lines) :
          (/\ j # k
           /\ Len(SplitColon(lines[j])) = 2
           /\ Len(SplitColon(lines[k])) = 2)
             => SplitColon(lines[j])[2] # SplitColon(lines[k])[2]

ProducersFinished == \A t \in TokenNumbers : workerPc[t] = "exit"

\* calculateAndStoreHashes has returned nil to main
ReturnedNil == result = "nil" /\ mainPc \in {"returned", "serving"}

\* C1: calculateAndStoreHashes returns only after every producer task has
\* finished and the writer goroutine has taken every record out of
\* hashChannel, written it and flushed: whenever the function has just
\* returned, the producers are done, the channel is empty and the writer
\* goroutine has ended.  Stated for the runs in which the operating system
\* accepted every write.
C1_ReturnsOnlyAfterDrainAndFlush ==
    (mainPc = "returned" /\ ~ioFailed) =>
        /\ ProducersFinished
        /\ hashChannel = <<>>
        /\ writerPc = "exit"

\* C2: after a completed build (the function returned nil, every producer
\* finished, the channel drained, the writer goroutine flushed and ended)
\* the index file holds exactly limit + 1 records, one per identifier of
\* 0..limit, none twice, no digest twice.  Stated for the runs in which the
\* operating system accepted every write.
C2_CompletedBuildHoldsEachRecordOnce ==
    (ReturnedNil /\ ProducersFinished /\ hashChannel = <<>>
        /\ writerPc = "exit" /\ ~ioFailed)
    => IndexComplete(fileData)

\* C3: when a write of the writer goroutine returns an error during the
\* build, the build is aborted and calculateAndStoreHashes returns an error:
\* once a write has failed, the function does not return nil (and so main
\* does not go on to serve the partial index).
C3_WriteFailureFailsTheBuild ==
    [][(writeFailed /\ result = "none") => result' # "nil"]_vars

\* C4: no lookup is answered from a partly built index: the handlers
\* answer only once main serves, and whenever a lookup has read the index
\* file, all limit + 1 records are in it.  Stated for the runs in which the
\* operating system accepted every write.
C4_LookupsReadOnlyTheCompleteIndex ==
    /\ lookup.handler # "none" => mainPc \in {"serving", "exited"}
    /\ (lookup.read /\ ~ioFailed) => IndexComplete(fileData)

\* C10: during a build at most concurrency compute tasks are in flight and
\* hashChannel holds at most channelBufferSize records (so a producer that
\* finds the channel full has not sent, and no task was started while
\* concurrency tasks were in flight).
C10_BoundedFanOutAndQueue ==
    /\ Cardinality(InFlight) <= concurrency
    /\ Len(hashChannel) <= channelBufferSize

\* C10, the case: concurrency tasks in flight, the channel full, a producer
\* waiting to send and the loop waiting for a place of the semaphore
C10_Witness ==
    /\ Cardinality(InFlight) = concurrency
    /\ Len(hashChannel) = channelBufferSize
    /\ \E t \in TokenNumbers : workerPc[t] = "send"
    /\ mainPc = "acquire"

\* the (identifier, hash) entries of an index store, whatever their order
Entries(lines) == {lines[k] : k \in 1..Len(lines)}

\* the build is over: the function returned nil to main and every goroutine
\* it started has ended
BuildOver ==
    /\ ReturnedNil
    /\ ProducersFinished
    /\ hashChannel = <<>>
    /\ writerPc = "exit"

\* C11: builds of the same limit leave index stores with the same set of
\* entries whatever the concurrency (semaphoreCap 1 or concurrency) and the
\* interleaving of the producers: once a build is over, the entries of the
\* file are those of 0..limit, a set that depends on limit alone.  Stated
\* for the runs in which the operating system accepted every write.
C11_SameEntriesForEveryConcurrency ==
    (BuildOver /\ ~ioFailed) =>
        Entries(fileData) = {Record(t) : t \in TokenNumbers}

\* calculateAndStoreHashes is inside its deferred writer.Flush(): the
\* buffer is written, b.n not yet reset
MainInFlush == mainPc = "deferFlushReset"

\* the writer goroutine is inside its writer.Flush()
WriterInFlush == writerPc = "flushReset"

\* C16: the bufio.Writer of the index file is used by one task at a time:
\* the deferred Flush of calculateAndStoreHashes never runs while the writer
\* goroutine is inside a call on the writer; in no state are both inside
\* writer.Flush().
C16_WriterUsedByOneTaskAtATime == ~(MainInFlush /\ WriterInFlush)

\* calculateAndStoreHashes has returned and the writer goroutine has exited,
\* or the process has ended
BuildEnded ==
    /\ result # "none"
    /\ mainPc \in {"returned", "serving", "exited", "fatal"}
    /\ writerPc = "exit" \/ ~Running

\* C17: the build is free of deadlock and terminates.  In no state before
\* its end are the loop (waiting for the semaphore), the producers (waiting
\* for room in hashChannel) and the writer goroutine all blocked: some
\* goroutine of the build can take a step; and under fair scheduling
\* calculateAndStoreHashes returns and the writer goroutine exits, whether
\* or not writes fail.
C17_BuildTerminates ==
    /\ [](BuildEnded \/ ENABLED (MainStep \/ WriterStep
                                   \/ \E t \in TokenNumbers : WorkerStep(t)))
    /\ <>BuildEnded

\* C17, the case: a build with one place in the semaphore in which a write
\* failed has returned and its writer goroutine has exited
C17_Witness ==
    /\ semaphoreCap = 1
    /\ writeFailed
    /\ result = "nil"
    /\ writerPc = "exit"
    /\ BuildEnded

(***************************************************************************)
(* The verifiers: claims C5-C9                                             *)
(***************************************************************************)
\* the level field of a token of the right length is three decimal digits
NumericLevel(tok) == AllDigits(SubSeq(tok, 1, LevelLen))

WellFormed(tok) == Len(tok) = TokenLen /\ NumericLevel(tok)

\* the handler has answered with the JSON map
Answered == response.status = 200

\* the answer holds true for the token
AnsweredTrue(tok) == tok \in DOMAIN response.body /\ response.body[tok]

\* the answer holds false for the token
AnsweredFalse(tok) == tok \in DOMAIN response.body /\ ~response.body[tok]

\* the token's digest is in the index with an identifier i, 0 < i <= quota
\* of the token's level (quota 0 for a level outside 0..78)
ResolvesWithinQuota(tok) ==
    \E k \in 1..Len(index) :
        /\ Digest(index[k]) = SubSeq(tok, LevelLen + 1, Len(tok))
        /\ 0 < index[k]
        /\ index[k] <= TokenMapGet(DigitsVal(SubSeq(tok, 1, LevelLen)))

\* C5: for every well-formed token of a batch the result is true exactly
\* when the token's digest resolves in the index to an identifier i with
\* 0 < i <= quota[level].  Stated for the answers given without a database
\* or file error.
C5_TrueIffResolvesWithinQuota ==
    (Answered /\ ~storeErr) =>
        \A k \in 1..Len(input) :
            WellFormed(input[k]) =>
                (AnsweredTrue(input[k]) <=> ResolvesWithinQuota(input[k]))

\* C6: a token whose length is not TokenLen (the empty string and strings
\* shorter than the level field included) gets false in the answer and
\* never makes the batch panic or go unanswered.
C6_WrongLengthIsFalseNeverAPanic ==
    /\ crash # "slice bounds out of range"
    /\ handlerPc # "panicked"
    /\ Answered =>
          \A k \in 1..Len(input) :
              Len(input[k]) # TokenLen => AnsweredFalse(input[k])

\* C7: a token of the right length whose level field is not purely numeric
\* never verifies true, whatever its digest resolves to.
C7_NonNumericLevelNeverTrue ==
    Answered =>
        \A k \in 1..Len(input) :
            (Len(input[k]) = TokenLen /\ ~NumericLevel(input[k]))
                => ~AnsweredTrue(input[k])

\* C8: the results map is never written by two per-token goroutines at the
\* same time, and every write of a goroutine to it happens while that
\* goroutine holds the mutex, on the invalid-length path too.
C8_ResultsWrittenUnderTheMutex ==
    /\ Cardinality(mapWriters) <= 1
    /\ \A g \in Goroutines : g \in mapWriters => mutex = g

\* what the code gives a token verified alone, without a store error
VerdictAlone(tok) ==
    /\ Len(tok) = TokenLen
    /\ \E k \in 1..Len(index) :
          /\ Digest(index[k]) = HashOf(tok)
          /\ WithinQuota(index[k], Level(tok))

\* C9: once a batch is answered the result map has exactly one entry per
\* distinct input token, keyed by the token itself, and no other key, and
\* each value is the one computed for that token alone, under every
\* interleaving.  Stated for the answers given without a store error.
C9_OneEntryPerDistinctToken ==
    (Answered /\ ~storeErr) =>
        /\ DOMAIN response.body = {input[k] : k \in 1..Len(input)}
        /\ \A tok \in DOMAIN response.body :
              response.body[tok] = VerdictAlone(tok)

(***************************************************************************)
(* The verifiers: claims C12-C15, C18, C19                                 *)
(***************************************************************************)
\* the level a numeric level field states
StatedLevel(tok) == DigitsVal(SubSeq(tok, 1, LevelLen))

\* a well-formed token whose level is 0 or outside the table (79..999)
LevelWithoutQuota(tok) ==
    WellFormed(tok) /\ StatedLevel(tok) \notin 1..(Len(TokenMap) - 1)

\* C12: a token whose level is outside [0,78], or is 0, is checked against
\* quota 0 and verifies false whatever identifier its digest resolves to:
\* every entry the handlers write for it is false, an answer never holds
\* true for it, and in the answer to a batch of tokens of the right length
\* its entry is there and false.
C12_LevelWithoutQuotaIsFalse ==
    /\ \A tok \in DOMAIN results : LevelWithoutQuota(tok) => ~results[tok]
    /\ Answered =>
          \A k \in 1..Len(input) :
              LevelWithoutQuota(input[k]) =>
                  /\ ~AnsweredTrue(input[k])
                  /\ (\A j \in 1..Len(input) : Len(input[j]) = TokenLen)
                        => AnsweredFalse(input[k])

\* C12, the case: a batch of a token of level 79 and a token of level 000,
\* both with a digest that resolves to an identifier within every quota, is
\* answered false for both
C12_Witness ==
    /\ Answered
    /\ \E j, k \in 1..Len(input) :
          /\ LevelWithoutQuota(input[j]) /\ StatedLevel(input[j]) = 0
          /\ LevelWithoutQuota(input[k])
          /\ StatedLevel(input[k]) > Len(TokenMap) - 1
          /\ AnsweredFalse(input[j]) /\ AnsweredFalse(input[k])
          /\ \E n \in 1..Len(index) :
                /\ 0 < index[n] /\ index[n] <= TokenMap[Len(TokenMap)]
                /\ Digest(index[n]) = HashOf(input[j])
                /\ Digest(index[n]) = HashOf(input[k])


\* the goroutine of place g has written its result and no other place of the
\* batch holds the same token
WroteAlone(g) ==
    /\ g \in 1..Len(input)
    /\ gPc[g] \in {"unlock", "done", "exit"}
    /\ input[g] \in DOMAIN results
    /\ \A j \in 1..Len(input) : j # g => input[j] # input[g]

\* C13: every per-token error fails closed.  A failed db.Prepare makes no
\* lookup panic; a token whose query met a database error has the result
\* false; a token whose scan of the file met a read error has the result
\* false.
C13_StoreErrorsFailClosed ==
    /\ crash # "nil pointer dereference"
    /\ \A g \in Goroutines :
          (WroteAlone(g) /\ row[g].err = "database error")
              => ~results[input[g]]
    /\ (variant = "file" /\ Answered /\ storeErr /\ Len(input) = 1)
          => AnsweredFalse(input[1])

\* C14: when the request is cancelled while its batch is being verified,
\* the per-token tasks in flight are cancelled and no partial result map is
\* answered: from then on no task goes on to query the store, and an answer,
\* if one is written, holds every token of the batch.
C14_CancellationStopsTheTasks ==
    [][cancelled =>
          /\ UNCHANGED row
          /\ (response'.status = 200 /\ response.status # 200)
                => DOMAIN response'.body = {input[k] : k \in 1..Len(input)}
      ]_vars

\* the token at place g of the batch has been decoded by its goroutine (db)
\* or by the loop (file)
HasDecoded(g) ==
    /\ g \in 1..Len(input)
    /\ IF variant = "db" THEN gPc[g] \notin {"none", "start"}
       ELSE \/ tokIdx > g
            \/ tokIdx = g /\ handlerPc \in {"scan", "after"}

\* C15: decoding round-trips: for every level of 0..78 and every digest,
\* the token made of the level as three zero-padded digits and the digest
\* decodes to exactly that level and that digest, level 0 written "000"
\* included.
C15_DecodeRoundTrips ==
    \A g \in Goroutines :
        HasDecoded(g) =>
            \A level \in 0..(Len(TokenMap) - 1), h \in DecodeHashes :
                input[g] = Encode(level, h)
                    => decoded[g] = [level |-> level, hash |-> h]

\* C15, the case: a verifier has decoded the token of level 0, "000", and a
\* digest that begins with zeros
C15_Witness ==
    /\ HasDecoded(1)
    /\ \E h \in DecodeHashes :
          /\ h[1] = "0"
          /\ input[1] = Encode(0, h)
          /\ decoded[1] = [level |-> 0, hash |-> h]

\* C18: concurrent batch verification always completes.  Until the handler
\* has answered, the handler or one of its goroutines can take a step (no
\* goroutine ends without wg.Done(), none keeps the mutex); the mutex is
\* held only by a goroutine that is on its way to mutex.Unlock(); and the
\* response is written only after every goroutine of the batch has ended.
\* Stated for a server whose statement was prepared.
C18_BatchVerificationCompletes ==
    (variant = "db" /\ stmtOK) =>
        /\ handlerPc = "done" \/ ENABLED DbNext
        /\ mutex # 0 => gPc[mutex] \in {"query", "assign", "assigning",
                                          "unlock"}
        /\ Answered => \A g \in 1..Len(input) : gPc[g] = "exit"

\* what the flat-file verifier gives a token verified alone, without a file
\* error: the first record of the file with the token's digest decides
FileVerdictAlone(tok) ==
    LET k == ScanFrom(FileLines, 1, HashOf(tok))
    IN  /\ k <= Len(FileLines)
        /\ WithinQuota(Atoi(SplitColon(FileLines[k])[1]).val, Level(tok))

\* C19: in the flat-file verifier every token's lookup scans the index from
\* its first record: the loop starts each token with the scanner at the
\* first record, and the answer holds for every token of the batch the
\* result of verifying that token alone, whatever the other tokens of the
\* batch and their order.  Stated for the answers given without a file
\* error.
C19_EachTokenScansFromTheFirstRecord ==
    variant = "file" =>
        /\ handlerPc = "token" => cursor = 1
        /\ (Answered /\ ~storeErr) =>
              /\ DOMAIN response.body = {input[k] : k \in 1..Len(input)}
              /\ \A tok \in DOMAIN response.body :
                    response.body[tok] = FileVerdictAlone(tok)

\* C19, the case: a batch of two tokens is answered true for both, and the
\* record of the second token lies before the record of the first
C19_Witness ==
    /\ variant = "file"
    /\ Answered /\ ~storeErr
    /\ Len(input) = 2
    /\ AnsweredTrue(input[1]) /\ AnsweredTrue(input[2])
    /\ ScanFrom(FileLines, 1, HashOf(input[2]))
          < ScanFrom(FileLines, 1, HashOf(input[1]))

=============================================================================
